---- MODULE Spec2Model ----
(***************************************************************************)
(* The fetch handler of src/worker.js: a URL-path-based forwarding proxy.  *)
(*                                                                         *)
(* Text is a sequence of one-character strings, so that the string         *)
(* operations of the handler (decoding, prefix tests, URL parsing, the     *)
(* regular-expression rewrite) are computed rather than assumed.           *)
(***************************************************************************)
EXTENDS Integers, Sequences, FiniteSets

(* ------------------------------ text -------------------------------- *)

\* Printable ASCII, 0x20..0x7E, in code order (0x60 is written "GRAVE").
Ascii == <<" ","!","\"","#","$","%","&","'","(",")","*","+",",","-",".","/","0","1","2","3","4","5","6","7","8","9",":",";","<","=",">","?","@","A","B","C","D","E","F","G","H","I","J","K","L","M","N","O","P","Q","R","S","T","U","V","W","X","Y","Z","[","\\","]","^","_","GRAVE","a","b","c","d","e","f","g","h","i","j","k","l","m","n","o","p","q","r","s","t","u","v","w","x","y","z","{","|","}","~">>

AsciiChars == { Ascii[i] : i \in 1..Len(Ascii) }

CodeOf == [c \in AsciiChars |-> 31 + (CHOOSE i \in 1..Len(Ascii) : Ascii[i] = c)]

CharCode(c) == CodeOf[c]

CodeChar(n) == Ascii[n - 31]

HexDigits == <<"0","1","2","3","4","5","6","7","8","9","A","B","C","D","E","F">>

LowerHex == <<"0","1","2","3","4","5","6","7","8","9","a","b","c","d","e","f">>

IsHex(c) == \E i \in 1..16 : HexDigits[i] = c \/ LowerHex[i] = c

HexVal(c) == (CHOOSE i \in 1..16 : HexDigits[i] = c \/ LowerHex[i] = c) - 1

Letters == { Ascii[i] : i \in 34..59 } \cup { Ascii[i] : i \in 66..91 }

Digits == { Ascii[i] : i \in 17..26 }

Drop(s, n) == SubSeq(s, n + 1, Len(s))

Take(s, n) == SubSeq(s, 1, n)

\* String.prototype.startsWith
startsWith(s, p) == Len(s) >= Len(p) /\ SubSeq(s, 1, Len(p)) = p

startsWithAt(s, i, p) == i + Len(p) - 1 <= Len(s) /\ SubSeq(s, i, i + Len(p) - 1) = p

endsWith(s, p) == Len(s) >= Len(p) /\ SubSeq(s, Len(s) - Len(p) + 1, Len(s)) = p

\* String.prototype.includes
includes(s, p) == \E i \in 1..(Len(s) - Len(p) + 1) : startsWithAt(s, i, p)

RECURSIVE IndexOfAny(_, _, _)
\* The first index >= from of a character of cs, or Len(s) + 1.
IndexOfAny(s, cs, from) ==
  IF from > Len(s) THEN Len(s) + 1
  ELSE IF s[from] \in cs THEN from
  ELSE IndexOfAny(s, cs, from + 1)

RECURSIVE IndexOf(_, _, _)
\* String.prototype.indexOf, from index `from`: 0 when p does not occur.
IndexOf(s, p, from) ==
  IF from + Len(p) - 1 > Len(s) THEN 0
  ELSE IF startsWithAt(s, from, p) THEN from
  ELSE IndexOf(s, p, from + 1)

\* String.prototype.replace with a string pattern: the first occurrence only.
replaceFirst(s, p, r) ==
  LET i == IndexOf(s, p, 1)
  IN IF i = 0 THEN s ELSE Take(s, i - 1) \o r \o Drop(s, i + Len(p) - 1)

UpperLetters == { Ascii[i] : i \in 34..59 }

LowerOf == [c \in UpperLetters |-> CodeChar(CharCode(c) + 32)]

LowerChar(c) == IF c \in UpperLetters THEN LowerOf[c] ELSE c

\* String.prototype.toLowerCase
toLowerCase(s) == [i \in 1..Len(s) |-> LowerChar(s[i])]

RECURSIVE Join(_, _)
\* Array.prototype.join
Join(parts, sep) ==
  IF parts = <<>> THEN <<>>
  ELSE IF Len(parts) = 1 THEN parts[1]
  ELSE parts[1] \o sep \o Join(Tail(parts), sep)

(* ----------------------- percent-encoding --------------------------- *)

\* The characters encodeURIComponent leaves alone.
UriUnreserved == Letters \cup Digits \cup {"-", "_", ".", "!", "~", "*", "'", "(", ")"}

PercentEncodeChar(c) ==
  IF c \in UriUnreserved THEN <<c>>
  ELSE <<"%", HexDigits[(CharCode(c) \div 16) + 1], HexDigits[(CharCode(c) % 16) + 1]>>

RECURSIVE encodeURIComponent(_)
encodeURIComponent(s) ==
  IF s = <<>> THEN <<>> ELSE PercentEncodeChar(Head(s)) \o encodeURIComponent(Tail(s))

\* A thrown exception, or a value.
Threw(msg) == [ok |-> FALSE, val |-> msg]

Value(v) == [ok |-> TRUE, val |-> v]

URIMalformed == <<"U","R","I"," ","m","a","l","f","o","r","m","e","d">>

\* Bytes that can neither start nor stand alone in UTF-8: their escape is a URIError.
\* (Escapes of 0xC2..0xF4, which start multi-byte sequences, are outside the
\* input alphabet of this model; CodeChar is undefined for them.)
InvalidUtf8Lead(b) == b \in 128..193 \/ b \in 245..255

RECURSIVE DecodeFrom(_, _, _)
DecodeFrom(s, i, acc) ==
  IF i > Len(s) THEN Value(acc)
  ELSE IF s[i] # "%" THEN DecodeFrom(s, i + 1, Append(acc, s[i]))
  ELSE IF i + 2 > Len(s) \/ ~IsHex(s[i + 1]) \/ ~IsHex(s[i + 2]) THEN Threw(URIMalformed)
  ELSE LET b == 16 * HexVal(s[i + 1]) + HexVal(s[i + 2])
       IN IF InvalidUtf8Lead(b) THEN Threw(URIMalformed)
          ELSE DecodeFrom(s, i + 3, Append(acc, CodeChar(b)))

decodeURIComponent(s) == DecodeFrom(s, 1, <<>>)

(* ------------------------------ URLs -------------------------------- *)

InvalidURL == <<"I","n","v","a","l","i","d"," ","U","R","L">>

SpecialSchemes == { <<"h","t","t","p">>, <<"h","t","t","p","s">> }

URLRecord(special, scheme, host, port, path, hasQuery, query, hasFragment, fragment) ==
  [special |-> special, scheme |-> scheme, host |-> host, port |-> port, path |-> path,
   hasQuery |-> hasQuery, query |-> query, hasFragment |-> hasFragment,
   fragment |-> fragment]

RECURSIVE Split(_, _)
\* s split at every occurrence of the character c.
Split(s, c) ==
  LET i == IndexOfAny(s, {c}, 1)
  IN IF i > Len(s) THEN <<s>> ELSE <<Take(s, i - 1)>> \o Split(Drop(s, i), c)

RECURSIVE DotSegments(_, _, _)
\* The URL parser's path state over the segments: "." and ".." are resolved.
DotSegments(segs, i, acc) ==
  IF i > Len(segs) THEN acc
  ELSE LET seg == segs[i]
           last == i = Len(segs)
       IN IF seg = <<".",".">>
            THEN LET popped == IF acc = <<>> THEN acc ELSE Take(acc, Len(acc) - 1)
                 IN DotSegments(segs, i + 1, IF last THEN Append(popped, <<>>) ELSE popped)
          ELSE IF seg = <<".">>
            THEN DotSegments(segs, i + 1, IF last THEN Append(acc, <<>>) ELSE acc)
          ELSE DotSegments(segs, i + 1, Append(acc, seg))

RECURSIVE SlashJoin(_)
SlashJoin(segs) == IF segs = <<>> THEN <<>> ELSE <<"/">> \o Head(segs) \o SlashJoin(Tail(segs))

\* A path as the parser stores it: "/" + segments, never empty for http(s).
NormalizePath(p) ==
  LET body == IF startsWith(p, <<"/">>) THEN Drop(p, 1) ELSE p
  IN SlashJoin(DotSegments(Split(body, "/"), 1, <<>>))

\* What follows the authority: path, then "?" query, then "#" fragment.
PathOf(t) == Take(t, IndexOfAny(t, {"?", "#"}, 1) - 1)

FragmentStart(t) == IndexOfAny(t, {"#"}, 1)

HasFragmentIn(t) == FragmentStart(t) <= Len(t)

FragmentOf(t) == Drop(t, FragmentStart(t))

QueryStart(t) == IndexOfAny(Take(t, FragmentStart(t) - 1), {"?"}, 1)

HasQueryIn(t) == QueryStart(t) <= FragmentStart(t) - 1

QueryOf(t) == SubSeq(t, QueryStart(t) + 1, FragmentStart(t) - 1)

DefaultPort(scheme) == IF scheme = <<"h","t","t","p">> THEN <<"8","0">> ELSE <<"4","4","3">>

RECURSIVE SkipSlashes(_)
SkipSlashes(s) == IF s # <<>> /\ Head(s) = "/" THEN SkipSlashes(Tail(s)) ELSE s

\* scheme ":" rest, for http and https: slashes are skipped, then the authority
\* (host and optional port), then path, query and fragment.
ParseSpecial(scheme, rest) ==
  LET r == SkipSlashes(rest)
      authEnd == IndexOfAny(r, {"/", "?", "#"}, 1)
      auth == Take(r, authEnd - 1)
      after == Drop(r, authEnd - 1)
      colon == IndexOfAny(auth, {":"}, 1)
      host == Take(auth, colon - 1)
      port == Drop(auth, colon)
  IN IF host = <<>> \/ \E i \in 1..Len(port) : port[i] \notin Digits
       THEN Threw(InvalidURL)
       ELSE Value(URLRecord(TRUE, scheme, toLowerCase(host),
                            IF port = DefaultPort(scheme) THEN <<>> ELSE port,
                            NormalizePath(PathOf(after)),
                            HasQueryIn(after), QueryOf(after),
                            HasFragmentIn(after), FragmentOf(after)))

\* The index of the ":" that ends a scheme at the start of s, or 0.
SchemeEnd(s) ==
  LET i == IndexOfAny(s, {":"}, 1)
  IN IF i > 1 /\ i <= Len(s) /\ s[1] \in Letters
        /\ \A j \in 1..(i - 1) : s[j] \in Letters \cup Digits \cup {"+", "-", "."}
       THEN i ELSE 0

\* new URL(s): an absolute URL or a TypeError.
ParseURL(s) ==
  LET e == SchemeEnd(s)
      scheme == toLowerCase(Take(s, e - 1))
  IN IF e = 0 THEN Threw(InvalidURL)
     ELSE IF scheme \in SpecialSchemes THEN ParseSpecial(scheme, Drop(s, e))
     ELSE Value(URLRecord(FALSE, scheme, <<>>, <<>>, Drop(s, e), FALSE, <<>>, FALSE, <<>>))

\* The directory of a path: up to and including its last "/".
RECURSIVE DirOf(_)
DirOf(path) ==
  IF path = <<>> \/ path[Len(path)] = "/" THEN path ELSE DirOf(Take(path, Len(path) - 1))

\* A reference without scheme resolved against the http(s) URL base.
ResolveRelative(ref, base) ==
  IF startsWith(ref, <<"/","/">>) THEN ParseSpecial(base.scheme, ref)
  ELSE LET t == IF ref = <<>> \/ ref[1] \in {"/", "?", "#"} THEN ref
                ELSE DirOf(base.path) \o ref
           ownPath == PathOf(t) # <<>>
           ownQuery == ownPath \/ HasQueryIn(t)
       IN Value(URLRecord(TRUE, base.scheme, base.host, base.port,
                          IF ownPath THEN NormalizePath(PathOf(t)) ELSE base.path,
                          IF ownQuery THEN HasQueryIn(t) ELSE base.hasQuery,
                          IF ownQuery THEN QueryOf(t) ELSE base.query,
                          HasFragmentIn(t), FragmentOf(t)))

\* new URL(ref, base), base the text of an http(s) URL.
ResolveURL(ref, baseStr) ==
  LET b == ParseURL(baseStr)
      e == SchemeEnd(ref)
      scheme == toLowerCase(Take(ref, e - 1))
  IN IF ~b.ok THEN b
     ELSE IF e = 0 THEN ResolveRelative(ref, b.val)
     ELSE IF scheme = b.val.scheme /\ ~startsWithAt(ref, e + 1, <<"/">>)
       THEN ResolveRelative(Drop(ref, e), b.val)
     ELSE ParseURL(ref)

\* URL.prototype.host
HostOf(u) == IF u.port = <<>> THEN u.host ELSE u.host \o <<":">> \o u.port

\* URL.prototype.origin, of an http(s) URL
OriginOf(u) == u.scheme \o <<":","/","/">> \o HostOf(u)

\* The URL serializer; a fetch sends the URL without its fragment.
Serialize(u, withFragment) ==
  IF u.special
    THEN u.scheme \o <<":","/","/">> \o HostOf(u) \o u.path
         \o (IF u.hasQuery THEN <<"?">> \o u.query ELSE <<>>)
         \o (IF withFragment /\ u.hasFragment THEN <<"#">> \o u.fragment ELSE <<>>)
    ELSE u.scheme \o <<":">> \o u.path

\* URL.prototype.toString
Href(u) == Serialize(u, TRUE)

(* ----------------------------- Headers ------------------------------ *)

\* null, as Headers.get and Response.body return it: no text equals it.
Null == <<"null">>

\* String(v), as new URL applies it to its argument.
StringOf(v) == IF v = Null THEN <<"n","u","l","l">> ELSE v

\* A Headers object: lower-case name -> the values appended under it, in order.
HeadersHas(h, name) == toLowerCase(name) \in DOMAIN h

\* Headers.get: the values of the name joined by ", ", or null.
HeadersGet(h, name) ==
  IF HeadersHas(h, name) THEN Join(h[toLowerCase(name)], <<","," ">>) ELSE Null

\* Headers.set: one value replaces every value of the name.
HeadersSet(h, name, value) ==
  LET lower == toLowerCase(name)
  IN [n \in DOMAIN h \cup {lower} |-> IF n = lower THEN <<value>> ELSE h[n]]

\* new Headers(init): the constructor copies every value of every name.
CopyHeaders(h) == [n \in DOMAIN h |-> h[n]]

\* The headers of an object literal with no own properties.
EmptyHeaders == [n \in {} |-> <<>>]

\* { ...headers }: the spread copies own enumerable properties, and a Headers
\* object has none (its entries live behind get/has/entries).
ObjectSpread(h) == EmptyHeaders

\* [...headers]: one [name, value] pair per name with the values combined,
\* except set-cookie, whose values stay apart.
HeaderEntries(h) ==
  [n \in DOMAIN h |-> IF n = <<"s","e","t","-","c","o","o","k","i","e">> THEN h[n] ELSE <<HeadersGet(h, n)>>]

\* filterHeaders(headers, filterFunc): filterFunc is the predicate as a function
\* of the names that headers iterates.
filterHeaders(headers, filterFunc) ==
  LET entries == HeaderEntries(headers)
  IN [n \in { m \in DOMAIN entries : filterFunc[m] } |-> entries[n]]

\* A slip of the filter: the platform prefix is not tested.
ForwardedNameNotHost(name) == toLowerCase(name) # <<"h","o","s","t">>

\* The filter handleRequest passes: name => !name.startsWith('cf-') && name.toLowerCase() !== 'host'
ForwardedName(name) == ~startsWith(name, <<"c","f","-">>) /\ toLowerCase(name) # <<"h","o","s","t">>

\* A slip of setNoCacheHeaders: Cache-Control set only where the upstream set none.
setNoCacheHeadersIfAbsent(headers) ==
  IF HeadersHas(headers, <<"C","a","c","h","e","-","C","o","n","t","r","o","l">>) THEN headers
  ELSE HeadersSet(headers, <<"C","a","c","h","e","-","C","o","n","t","r","o","l">>, <<"n","o","-","s","t","o","r","e">>)

\* setNoCacheHeaders(headers)
setNoCacheHeaders(headers) == HeadersSet(headers, <<"C","a","c","h","e","-","C","o","n","t","r","o","l">>, <<"n","o","-","s","t","o","r","e">>)

\* setCorsHeaders(headers)
setCorsHeaders(headers) ==
  HeadersSet(HeadersSet(HeadersSet(headers,
      <<"A","c","c","e","s","s","-","C","o","n","t","r","o","l","-","A","l","l","o","w","-","O","r","i","g","i","n">>, <<"*">>),
      <<"A","c","c","e","s","s","-","C","o","n","t","r","o","l","-","A","l","l","o","w","-","M","e","t","h","o","d","s">>, <<"G","E","T",","," ","P","O","S","T",","," ","P","U","T",","," ","D","E","L","E","T","E">>),
      <<"A","c","c","e","s","s","-","C","o","n","t","r","o","l","-","A","l","l","o","w","-","H","e","a","d","e","r","s">>, <<"*">>)

(* ------------------------------ bodies ------------------------------ *)

\* A body is a sequence of bytes: an ASCII byte is its character, any other byte
\* its two hex digits ("C3", "FF").  Text is a sequence of code points: an ASCII
\* character, or "U+00E9", "U+FFFD".
RECURSIVE Utf8Decode(_)
\* Response.text(): UTF-8 decoding; bytes that are not UTF-8 become U+FFFD.
\* (Of the non-ASCII bytes only C3, A9 and FF are in the input alphabet.)
Utf8Decode(bytes) ==
  IF bytes = <<>> THEN <<>>
  ELSE IF Head(bytes) \in AsciiChars THEN <<Head(bytes)>> \o Utf8Decode(Tail(bytes))
  ELSE IF Len(bytes) >= 2 /\ bytes[1] = "C3" /\ bytes[2] = "A9"
    THEN <<"U+00E9">> \o Utf8Decode(Drop(bytes, 2))
  ELSE <<"U+FFFD">> \o Utf8Decode(Tail(bytes))

Utf8EncodeChar(c) ==
  IF c = "U+00E9" THEN <<"C3", "A9">>
  ELSE IF c = "U+FFFD" THEN <<"EF", "BF", "BD">>
  ELSE <<c>>

RECURSIVE Utf8Encode(_)
\* new Response(text): the text is sent UTF-8 encoded.
Utf8Encode(text) ==
  IF text = <<>> THEN <<>> ELSE Utf8EncodeChar(Head(text)) \o Utf8Encode(Tail(text))

\* The length of the match of ((href|src|action)=["'])/(?!/) at index i less its
\* final "/", that is the length of $1; 0 when the pattern does not match at i.
MatchAt(text, i) ==
  LET names == { p \in { <<"h","r","e","f","=">>, <<"s","r","c","=">>, <<"a","c","t","i","o","n","=">> } : startsWithAt(text, i, p) }
  IN IF names = {} THEN 0
     ELSE LET n == Len(CHOOSE p \in names : TRUE)
          IN IF i + n + 1 <= Len(text)
                /\ text[i + n] \in {"\"", "'"}
                /\ text[i + n + 1] = "/"
                /\ (i + n + 2 > Len(text) \/ text[i + n + 2] # "/")
               THEN n + 1 ELSE 0

RECURSIVE ReplaceAllFrom(_, _, _)
\* String.prototype.replace with the global regex: matches left to right, none
\* overlapping; each is replaced by $1 followed by repl.
ReplaceAllFrom(text, i, repl) ==
  IF i > Len(text) THEN <<>>
  ELSE LET m == MatchAt(text, i)
       IN IF m > 0
            THEN SubSeq(text, i, i + m - 1) \o repl \o ReplaceAllFrom(text, i + m + 1, repl)
            ELSE <<text[i]>> \o ReplaceAllFrom(text, i + 1, repl)

\* replaceRelativePaths(text, protocol, host, origin): $1${protocol}//${host}/
replaceRelativePaths(text, protocol, host, origin) ==
  ReplaceAllFrom(text, 1, protocol \o <<"/","/">> \o host \o <<"/">>)

RECURSIVE JsonEscape(_)
JsonEscape(s) ==
  IF s = <<>> THEN <<>>
  ELSE (IF Head(s) \in {"\"", "\\"} THEN <<"\\", Head(s)>> ELSE <<Head(s)>>)
       \o JsonEscape(Tail(s))

\* JSON.stringify({ error: message })
JsonStringifyError(message) ==
  <<"{">> \o <<"\"">> \o <<"e","r","r","o","r">> \o <<"\"">> \o <<":">> \o <<"\"">> \o JsonEscape(message)
  \o <<"\"">> \o <<"}">>

(* ----------------------------- responses ---------------------------- *)

NullBodyStatus == {101, 204, 205, 304}

NullBodyError == <<"R","e","s","p","o","n","s","e"," ","w","i","t","h"," ","n","u","l","l"," ","b","o","d","y"," ","s","t","a","t","u","s"," ","c","a","n","n","o","t"," ","h","a","v","e"," ","b","o","d","y">>

StatusRangeError == <<"R","e","s","p","o","n","s","e","s"," ","m","a","y"," ","o","n","l","y"," ","b","e"," ","c","o","n","s","t","r","u","c","t","e","d"," ","w","i","t","h"," ","s","t","a","t","u","s"," ","c","o","d","e","s"," ","i","n"," ","t","h","e"," ","r","a","n","g","e"," ","2","0","0"," ","t","o"," ","5","9","9",","," ","i","n","c","l","u","s","i","v","e",".">>

\* new Response(body, { status, statusText, headers })
NewResponse(body, status, statusText, headers) ==
  IF status \notin 200..599 THEN Threw(StatusRangeError)
  ELSE IF status \in NullBodyStatus /\ body # Null THEN Threw(NullBodyError)
  ELSE Value([status |-> status, statusText |-> statusText,
              headers |-> CopyHeaders(headers), body |-> body])

\* getRootHtml(): the landing page (its first line; the rest is static text too).
getRootHtml == <<"<","!","D","O","C","T","Y","P","E"," ","h","t","m","l",">">>

\* jsonResponse(data, status), data being { error: message }
jsonResponse(message, status) ==
  NewResponse(Utf8Encode(JsonStringifyError(message)), status, <<>>,
              HeadersSet(EmptyHeaders, <<"C","o","n","t","e","n","t","-","T","y","p","e">>, <<"a","p","p","l","i","c","a","t","i","o","n","/","j","s","o","n",";"," ","c","h","a","r","s","e","t","=","u","t","f","-","8">>))

\* ensureProtocol(url, defaultProtocol)
ensureProtocol(url, defaultProtocol) ==
  IF startsWith(url, <<"h","t","t","p",":","/","/">>) \/ startsWith(url, <<"h","t","t","p","s",":","/","/">>)
    THEN url ELSE defaultProtocol \o <<"/","/">> \o url

(* ------------------------------ inputs ------------------------------ *)

\* How many redirects the client follows back through the proxy.
MaxHops == 2

\* The host the proxy is served at.
ProxyHost == <<"p",".","i","o">>

\* url.protocol of the inbound request.
Protocols == { <<"h","t","t","p",":">>, <<"h","t","t","p","s",":">> }

Methods == { "GET", "POST" }

\* url.pathname of the inbound request, as the URL parser leaves it.
Pathnames ==
  { <<"/">>,                              \* the landing page
    <<"/","a",".","i","o","/","x">>,                        \* a target without scheme
    <<"/","h","t","t","p","s",":","/","/","a",".","i","o","/","x">>,                \* a target with scheme, not encoded
    <<"/","h","t","t","p","%","3","A","%","2","F","%","2","F","a",".","i","o","%","2","F","d","%","2","F","x">>,     \* a target with scheme, encoded
    <<"/","a",".","i","o",":","8","0","8","0","/","x">>,                   \* a target with a port
    <<"/","a",".","i","o","%","2","F","x","%","3","F","k","%","3","D","1">>,              \* decodes to a.io/x?k=1
    <<"/","a",".","i","o","%","2","F","x","%","2","3","f">>,                  \* decodes to a.io/x#f
    <<"/","%","z","z">>,                           \* malformed percent-encoding
    <<"/","h","t","t","p","%","3","A","%","2","F","%","2","F">> }                \* decodes to http://, no URL

\* url.search of the inbound request: empty, or "?" and a non-empty query.
Searches == { <<>>, <<"?","q","=","1">> }

HostOnly == [n \in { <<"h","o","s","t">> } |-> <<ProxyHost>>]

WithCookie ==
  [n \in { <<"h","o","s","t">>, <<"c","o","o","k","i","e">>, <<"a","c","c","e","p","t">> } |->
     IF n = <<"h","o","s","t">> THEN <<ProxyHost>>
     ELSE IF n = <<"c","o","o","k","i","e">> THEN << <<"s","=","1">> >> ELSE << <<"*","/","*">> >>]

WithPlatform ==
  [n \in { <<"h","o","s","t">>, <<"c","f","-","r","a","y">>, <<"c","f","-","c","o","n","n","e","c","t","i","n","g","-","i","p">>, <<"x","-","c","f","-","i","d">> } |->
     IF n = <<"h","o","s","t">> THEN <<ProxyHost>> ELSE << <<"7">> >>]

WithAll ==
  [n \in { <<"h","o","s","t">>, <<"c","o","o","k","i","e">>, <<"a","c","c","e","p","t">>, <<"c","f","-","r","a","y">> } |->
     IF n = <<"h","o","s","t">> THEN <<ProxyHost>>
     ELSE IF n = <<"c","o","o","k","i","e">> THEN << <<"s","=","1">>, <<"t","=","2">> >>
     ELSE IF n = <<"a","c","c","e","p","t">> THEN << <<"a","/","b">>, <<"c","/","d">> >> ELSE << <<"7">> >>]

\* request.headers: names are lower-case in a Headers object.
HeaderSets == { HostOnly, WithCookie, WithPlatform, WithAll }

Requests ==
  [method : Methods, protocol : Protocols, host : {ProxyHost},
   pathname : Pathnames, search : Searches, headers : HeaderSets]

\* The statuses handleRequest treats as redirects.
RedirectStatuses == {301, 302, 303, 307, 308}

\* Statuses of answers with a body.
BodyStatuses == {200, 404}

StatusText(status) ==
  CASE status = 200 -> <<"O","K">>
    [] status = 301 -> <<"M","o","v","e","d"," ","P","e","r","m","a","n","e","n","t","l","y">>
    [] status = 302 -> <<"F","o","u","n","d">>
    [] status = 303 -> <<"S","e","e"," ","O","t","h","e","r">>
    [] status = 304 -> <<"N","o","t"," ","M","o","d","i","f","i","e","d">>
    [] status = 307 -> <<"T","e","m","p","o","r","a","r","y"," ","R","e","d","i","r","e","c","t">>
    [] status = 308 -> <<"P","e","r","m","a","n","e","n","t"," ","R","e","d","i","r","e","c","t">>
    [] OTHER -> <<"N","o","t"," ","F","o","u","n","d">>

\* The upstream's Location header: absent, or one of these references.
Locations ==
  { Null, <<"/","l","o","g","i","n">>, <<"h","t","t","p","s",":","/","/","b",".","i","o","/","y","?","k","=","1">>, <<"z">>, <<"/","/","c",".","i","o","/","w">>, <<"?","k","=","2">>,
    <<".",".","/","u","p","#","f">>, <<"h","t","t","p",":","/","/">>, <<"m","a","i","l","t","o",":","x">> }

\* The upstream's Set-Cookie headers: none, one, two.
SetCookies == { <<>>, << <<"a","=","1">> >>, << <<"a","=","1">>, <<"b","=","2">> >> }

ContentTypes == { Null, <<"t","e","x","t","/","h","t","m","l",";"," ","c","h","a","r","s","e","t","=","u","t","f","-","8">>, <<"a","p","p","l","i","c","a","t","i","o","n","/","j","s","o","n">> }

\* Upstream bodies, as bytes: root-relative references in both quotes; references
\* the rewrite must leave alone; UTF-8 text; a byte that is not UTF-8.
Bodies ==
  { <<"<","i","m","g"," ","s","r","c","=","'","/","l",".","p","n","g","'",">","<","f","o","r","m"," ","a","c","t","i","o","n","=","\"","/","\"",">">>,
    <<"<","i","m","g"," ","s","r","c","=","\"","/","/","c",".","i","o","/","l","\"",">","<","a"," ","h","r","e","f","=","\"","x","/","y","\""," ","h","r","e","f","=","/","z",">">>,
    <<"<","p",">","c","a","f">> \o <<"C3", "A9">> \o <<"<","a"," ","h","r","e","f","=","\"","/","x","\"",">">>,
    <<"<","p",">">> \o <<"FF">> \o <<"<","a"," ","h","r","e","f","=","\"","/","x","\"",">">> }

\* Headers every upstream response of the model carries.
BaseHeaders ==
  [n \in { <<"e","t","a","g">>, <<"c","a","c","h","e","-","c","o","n","t","r","o","l">>, <<"a","c","c","e","s","s","-","c","o","n","t","r","o","l","-","a","l","l","o","w","-","o","r","i","g","i","n">> } |->
     IF n = <<"e","t","a","g">> THEN << <<"v","1">> >>
     ELSE IF n = <<"c","a","c","h","e","-","c","o","n","t","r","o","l">> THEN << <<"m","a","x","-","a","g","e","=","6","0">> >> ELSE << <<"a",".","i","o">> >>]

UpstreamHeaders(location, contentType, cookies) ==
  LET names == DOMAIN BaseHeaders
                 \cup (IF location = Null THEN {} ELSE { <<"l","o","c","a","t","i","o","n">> })
                 \cup (IF contentType = Null THEN {} ELSE { <<"c","o","n","t","e","n","t","-","t","y","p","e">> })
                 \cup (IF cookies = <<>> THEN {} ELSE { <<"s","e","t","-","c","o","o","k","i","e">> })
  IN [n \in names |->
        IF n = <<"l","o","c","a","t","i","o","n">> THEN <<location>>
        ELSE IF n = <<"c","o","n","t","e","n","t","-","t","y","p","e">> THEN <<contentType>>
        ELSE IF n = <<"s","e","t","-","c","o","o","k","i","e">> THEN cookies
        ELSE BaseHeaders[n]]

UpstreamResponse(status, location, contentType, cookies, body) ==
  [status |-> status, statusText |-> StatusText(status),
   headers |-> UpstreamHeaders(location, contentType, cookies), body |-> body]

\* What a target can answer: a redirect, a body, or a bodiless 304.
Upstreams ==
  { UpstreamResponse(s, l, Null, c, Null) :
      s \in RedirectStatuses, l \in Locations, c \in SetCookies }
  \cup { UpstreamResponse(s, Null, t, c, b) :
      s \in BodyStatuses, t \in ContentTypes, c \in SetCookies, b \in Bodies }
  \cup { UpstreamResponse(304, Null, t, c, Null) : t \in ContentTypes, c \in SetCookies }

\* error.message of a body stream that breaks while it is read.
BodyReadError == <<"N","e","t","w","o","r","k"," ","c","o","n","n","e","c","t","i","o","n"," ","l","o","s","t",".">>

\* error.message of a rejected fetch.
FetchErrors == { <<"N","e","t","w","o","r","k"," ","c","o","n","n","e","c","t","i","o","n"," ","l","o","s","t",".">>, <<"i","n","t","e","r","n","a","l"," ","e","r","r","o","r">> }

(* --------------------------- handleRequest -------------------------- *)

VARIABLES
  pc,            \* "idle", "fetching" (suspended at await fetch), "done"
  request,       \* the inbound request being handled
  actualUrlStr,  \* the target URL text handleRequest builds
  outbound,      \* modifiedRequest, the request handed to fetch
  fetches,       \* the calls of fetch made for the request
  upstream,      \* what fetch resolved to
  response,      \* what handleRequest returned
  responses,     \* the responses returned for the request
  branch,        \* which return statement produced the response
  thrown,        \* the exception raised while handling, and where
  unhandled,     \* an exception left handleRequest
  hop,           \* the redirects the client has followed through the proxy
  resolved       \* the URL the last redirect's Location resolved to

vars == <<pc, request, actualUrlStr, outbound, fetches, upstream, response,
          responses, branch, thrown, unhandled, hop, resolved>>

NoHeaders == EmptyHeaders

NoURL == URLRecord(FALSE, <<>>, <<>>, <<>>, <<>>, FALSE, <<>>, FALSE, <<>>)

NoRequest ==
  [method |-> "GET", protocol |-> <<>>, host |-> <<>>, pathname |-> <<>>,
   search |-> <<>>, headers |-> NoHeaders]

NoOutbound == [url |-> NoURL, method |-> "GET", headers |-> NoHeaders, redirect |-> "follow"]

NoResponse == [status |-> 0, statusText |-> <<>>, headers |-> NoHeaders, body |-> Null]

NothingThrown == [stage |-> "none", message |-> <<>>]

\* A slip of the try block: handleRedirect called outside it.
TryCoversNotRedirect(stage) ==
  stage \in {"decode", "host", "request", "fetch", "html", "response"}

\* The statements of handleRequest inside its try block: every one of them.
TryCovers(stage) ==
  stage \in {"decode", "host", "request", "fetch", "redirect", "html", "response"}

\* A slip of the root test: the empty path, which a parsed URL never has.
IsRootPathEmpty(pathname) == pathname = <<>>

\* url.pathname === "/"
IsRootPath(pathname) == pathname = <<"/">>

\* A slip of the target extraction: the path is not percent-decoded.
TargetOfUndecoded(req) ==
  Value(ensureProtocol(replaceFirst(req.pathname, <<"/">>, <<>>), req.protocol) \o req.search)

\* decodeURIComponent(url.pathname.replace("/", "")), ensureProtocol, += url.search
TargetOf(req) ==
  LET decoded == decodeURIComponent(replaceFirst(req.pathname, <<"/">>, <<>>))
  IN IF decoded.ok
       THEN Value(ensureProtocol(decoded.val, req.protocol) \o req.search)
       ELSE decoded

\* newHeaders: the filtered inbound headers, Cookie set again, Host set to the
\* target's hostname.
NewHeadersOf(req, target) ==
  LET filtered == filterHeaders(req.headers, [name \in DOMAIN HeaderEntries(req.headers) |-> ForwardedName(name)])
      withCookie == IF HeadersHas(req.headers, <<"c","o","o","k","i","e">>)
                      THEN HeadersSet(filtered, <<"C","o","o","k","i","e">>, HeadersGet(req.headers, <<"c","o","o","k","i","e">>))
                      ELSE filtered
  IN HeadersSet(withCookie, <<"H","o","s","t">>, target.host)

\* new Request(actualUrlStr, { headers, method, body, redirect: 'manual' })
ModifiedRequestOf(req, target) ==
  [url |-> target, method |-> req.method, headers |-> NewHeadersOf(req, target),
   redirect |-> "manual"]

\* response.body read as bytes (a null body has none).
BodyBytes(body) == IF body = Null THEN <<>> ELSE body

\* handleHtmlContent(response, protocol, host, actualUrlStr): the rewritten text.
handleHtmlContent(resp, protocol, host, target) ==
  replaceRelativePaths(Utf8Decode(BodyBytes(resp.body)), protocol, host,
                       OriginOf(ParseURL(target).val))

\* new URL(response.headers.get('location'), actualUrlStr)
RedirectTarget(resp, target) ==
  ResolveURL(StringOf(HeadersGet(resp.headers, <<"l","o","c","a","t","i","o","n">>)), target)

\* A slip of the rewrite: the resolved URL is not percent-encoded.
ModifiedLocationUnencoded(location) == <<"/">> \o Href(location)

\* `/${encodeURIComponent(location.toString())}`
ModifiedLocation(location) == <<"/">> \o encodeURIComponent(Href(location))

\* Set-Cookie set again from get(), on either branch.
ForwardSetCookie(headers, resp) ==
  IF HeadersHas(resp.headers, <<"S","e","t","-","C","o","o","k","i","e">>)
    THEN HeadersSet(headers, <<"S","e","t","-","C","o","o","k","i","e">>, HeadersGet(resp.headers, <<"S","e","t","-","C","o","o","k","i","e">>))
    ELSE headers

\* handleRedirect(response, request, actualUrlStr): a response, or what it threw.
handleRedirect(resp, req, target) ==
  LET location == RedirectTarget(resp, target)
  IN IF ~location.ok THEN location
     ELSE LET made == NewResponse(resp.body, resp.status, resp.statusText,
                                  HeadersSet(ObjectSpread(resp.headers), <<"L","o","c","a","t","i","o","n">>,
                                             ModifiedLocation(location.val)))
          IN IF ~made.ok THEN made
             ELSE Value([made.val EXCEPT !.headers = ForwardSetCookie(@, resp)])

\* response.headers.get("Content-Type")?.includes("text/html")
IsHtml(resp) ==
  LET t == HeadersGet(resp.headers, <<"C","o","n","t","e","n","t","-","T","y","p","e">>)
  IN t # Null /\ includes(t, <<"t","e","x","t","/","h","t","m","l">>)

\* The rest of handleRequest for a response that is no redirect.
ModifiedResponseOf(resp, req, target) ==
  LET responseBody == IF IsHtml(resp)
                        THEN Utf8Encode(handleHtmlContent(resp, req.protocol, req.host, target))
                        ELSE resp.body
      made == NewResponse(responseBody, resp.status, resp.statusText, resp.headers)
  IN IF ~made.ok THEN made
     ELSE Value([made.val EXCEPT
                   !.headers = setCorsHeaders(setNoCacheHeaders(ForwardSetCookie(@, resp)))])

Init ==
  /\ pc = "idle"
  /\ request = NoRequest
  /\ actualUrlStr = <<>>
  /\ outbound = NoOutbound
  /\ fetches = 0
  /\ upstream = NoResponse
  /\ response = NoResponse
  /\ responses = 0
  /\ branch = "none"
  /\ thrown = NothingThrown
  /\ unhandled = FALSE
  /\ hop = 0
  /\ resolved = NoURL

\* return value: the response goes to the client, after `before` earlier
\* responses to the same request.
Return(resp, how, before) ==
  /\ pc' = "done"
  /\ response' = resp
  /\ responses' = before + 1
  /\ branch' = how
  /\ unhandled' = FALSE

\* An exception raised at a stage: the catch block answers it when the try
\* block covers the stage, and otherwise it leaves the handler.
Throw(stage, message, before) ==
  /\ thrown' = [stage |-> stage, message |-> message]
  /\ IF TryCovers(stage)
       THEN Return(jsonResponse(message, 500).val, "error", before)
       ELSE /\ pc' = "done"
            /\ unhandled' = TRUE
            /\ responses' = before
            /\ UNCHANGED <<response, branch>>

\* handleRequest(request) up to its await of fetch.
handleRequest(req) ==
  /\ request' = req
  /\ upstream' = NoResponse
  /\ IF IsRootPath(req.pathname)
       THEN /\ Return(NewResponse(Utf8Encode(getRootHtml), 200, <<>>,
                        HeadersSet(EmptyHeaders, <<"C","o","n","t","e","n","t","-","T","y","p","e">>,
                                   <<"t","e","x","t","/","h","t","m","l",";"," ","c","h","a","r","s","e","t","=","u","t","f","-","8">>)).val, "root", 0)
            /\ actualUrlStr' = <<>>
            /\ outbound' = NoOutbound
            /\ fetches' = 0
            /\ thrown' = NothingThrown
       ELSE \E target \in {TargetOf(req)} :
               IF ~target.ok
                 THEN /\ Throw("decode", target.val, 0)
                      /\ actualUrlStr' = <<>>
                      /\ outbound' = NoOutbound
                      /\ fetches' = 0
                 ELSE \E url \in {ParseURL(target.val)} :
                         /\ actualUrlStr' = target.val
                         /\ IF ~url.ok
                              THEN /\ Throw("host", url.val, 0)
                                   /\ outbound' = NoOutbound
                                   /\ fetches' = 0
                              ELSE /\ outbound' = ModifiedRequestOf(req, url.val)
                                   /\ fetches' = 1
                                   /\ pc' = "fetching"
                                   /\ thrown' = NothingThrown
                                   /\ response' = NoResponse
                                   /\ responses' = 0
                                   /\ branch' = "none"
                                   /\ unhandled' = FALSE

\* A fetch event: the platform calls handleRequest with the request.
Receive(req) ==
  /\ pc = "idle"
  /\ handleRequest(req)
  /\ UNCHANGED <<hop, resolved>>

\* await fetch(modifiedRequest) rejects.
FetchRejects(message) ==
  /\ pc = "fetching"
  /\ Throw("fetch", message, responses)
  /\ UNCHANGED <<request, actualUrlStr, outbound, fetches, upstream, hop, resolved>>

\* await response.text() rejects: the body of an HTML answer cannot be read.
BodyReadFails(resp) ==
  /\ pc = "fetching"
  /\ resp.status \notin RedirectStatuses /\ IsHtml(resp)
  /\ upstream' = resp
  /\ Throw("html", BodyReadError, responses)
  /\ UNCHANGED <<request, actualUrlStr, outbound, fetches, hop, resolved>>

\* await fetch(modifiedRequest) resolves: the rest of handleRequest.
FetchResolves(resp) ==
  /\ pc = "fetching"
  /\ upstream' = resp
  /\ IF resp.status \in RedirectStatuses
       THEN \E made \in {handleRedirect(resp, request, actualUrlStr)} :
               IF made.ok
                 THEN /\ Return(made.val, "redirect", responses)
                      /\ thrown' = NothingThrown
                      /\ resolved' = RedirectTarget(resp, actualUrlStr).val
                 ELSE /\ Throw("redirect", made.val, responses)
                      /\ UNCHANGED resolved
       ELSE \E made \in {ModifiedResponseOf(resp, request, actualUrlStr)} :
               /\ UNCHANGED resolved
               /\ IF made.ok
                    THEN /\ Return(made.val, IF IsHtml(resp) THEN "html" ELSE "pass", responses)
                         /\ thrown' = NothingThrown
                    ELSE Throw("response", made.val, responses)
  /\ UNCHANGED <<request, actualUrlStr, outbound, fetches, hop>>

\* The request a client makes when it follows Location from the URL it asked for.
FollowRequest(req, location) ==
  LET here == Take(req.protocol, Len(req.protocol) - 1) \o <<":","/","/">> \o req.host
                \o req.pathname \o req.search
      next == ResolveURL(location, here).val
  IN [method |-> "GET", protocol |-> req.protocol, host |-> HostOf(next),
      pathname |-> next.path,
      search |-> IF next.hasQuery /\ next.query # <<>> THEN <<"?">> \o next.query ELSE <<>>,
      headers |-> HostOnly]

\* The client follows the rewritten redirect: a new fetch event.
Follow ==
  /\ pc = "done"
  /\ branch = "redirect"
  /\ hop < MaxHops
  /\ hop' = hop + 1
  /\ handleRequest(FollowRequest(request, HeadersGet(response.headers, <<"l","o","c","a","t","i","o","n">>)))
  /\ UNCHANGED resolved

Next ==
  \/ \E req \in Requests : Receive(req)
  \/ \E message \in FetchErrors : FetchRejects(message)
  \/ \E resp \in Upstreams : FetchResolves(resp)
  \/ \E resp \in Upstreams : BodyReadFails(resp)
  \/ Follow

Spec == Init /\ [][Next]_vars

(* ------------------------------ claims ------------------------------ *)

Returned == pc = "done" /\ ~unhandled

Proxied == Returned /\ branch \in {"redirect", "html", "pass"}

FetchIssued == pc = "fetching" \/ (pc = "done" /\ thrown.stage \notin {"decode", "host"}
                                     /\ branch # "root")

AllowOrigin == <<"a","c","c","e","s","s","-","c","o","n","t","r","o","l","-","a","l","l","o","w","-","o","r","i","g","i","n">>

CacheControl == <<"c","a","c","h","e","-","c","o","n","t","r","o","l">>

CarriesOpenCorsAndNoStore(resp) ==
  /\ HeadersHas(resp.headers, AllowOrigin) /\ resp.headers[AllowOrigin] = << <<"*">> >>
  /\ HeadersHas(resp.headers, CacheControl) /\ resp.headers[CacheControl] = << <<"n","o","-","s","t","o","r","e">> >>

\* C1, as claimed: every response handleRequest returns, on every path, carries
\* Access-Control-Allow-Origin: * and Cache-Control: no-store.
C1_EveryResponseCorsNoStore == Returned => CarriesOpenCorsAndNoStore(response)

\* C1, amended: the rewritten-HTML and pass-through responses carry
\* Access-Control-Allow-Origin: * and Cache-Control: no-store, whatever the upstream
\* sent under those names; the landing page, the rewritten redirect and the JSON 500
\* response carry neither header.
C1_ProxiedBodiesCorsNoStore ==
  Returned =>
    /\ branch \in {"html", "pass"} => CarriesOpenCorsAndNoStore(response)
    /\ branch \in {"root", "redirect", "error"} =>
         ~HeadersHas(response.headers, AllowOrigin) /\ ~HeadersHas(response.headers, CacheControl)

\* C1's case: a pass-through response whose upstream set its own Cache-Control.
C1_Witness ==
  /\ Returned /\ branch = "pass"
  /\ upstream.headers[CacheControl] = << <<"m","a","x","-","a","g","e","=","6","0">> >>
  /\ response.headers[CacheControl] = << <<"n","o","-","s","t","o","r","e">> >>

\* C2: every request gets exactly one response and no exception leaves
\* handleRequest; whenever a step fails (decoding the path, parsing the target,
\* the fetch, building the redirect Location, reading the HTML body, building
\* the response) the response
\* is status 500 with Content-Type application/json; charset=utf-8, its body is
\* {"error": <the failure message>} and nothing of the upstream response is in it.
C2_FailuresAnswered500Json ==
  /\ pc # "done" => responses = 0
  /\ pc = "done" =>
       /\ ~unhandled
       /\ responses = 1
       /\ thrown.stage # "none" =>
            /\ branch = "error"
            /\ response.status = 500
            /\ DOMAIN response.headers = { <<"c","o","n","t","e","n","t","-","t","y","p","e">> }
            /\ response.headers[<<"c","o","n","t","e","n","t","-","t","y","p","e">>] = << <<"a","p","p","l","i","c","a","t","i","o","n","/","j","s","o","n",";"," ","c","h","a","r","s","e","t","=","u","t","f","-","8">> >>
            /\ response.body = <<"{","\"","e","r","r","o","r","\"",":","\"">> \o thrown.message \o <<"\"","}">>

\* C2's case: the redirect Location could not be built, after the fetch answered.
C2_Witness ==
  /\ pc = "done" /\ thrown.stage = "redirect"
  /\ upstream.status \in RedirectStatuses /\ response.status = 500

\* C3: a request for the path "/" is answered 200 with Content-Type
\* text/html; charset=utf-8 and without any fetch, whatever its method, headers
\* and query; every other request that does not fail before the fetch makes
\* exactly one fetch.
C3_RootNeverFetches ==
  /\ (pc # "idle" /\ request.pathname = <<"/">>) =>
       /\ Returned /\ branch = "root"
       /\ response.status = 200
       /\ HeadersGet(response.headers, <<"C","o","n","t","e","n","t","-","T","y","p","e">>) = <<"t","e","x","t","/","h","t","m","l",";"," ","c","h","a","r","s","e","t","=","u","t","f","-","8">>
       /\ fetches = 0
  /\ (pc # "idle" /\ request.pathname # <<"/">>) =>
       fetches = (IF thrown.stage \in {"decode", "host"} THEN 0 ELSE 1)

\* C3's case: a POST to "/" with a query, a cookie and platform headers.
C3_Witness ==
  /\ Returned /\ request.pathname = <<"/">> /\ request.method = "POST"
  /\ request.search # <<>> /\ request.headers = WithAll

\* The upstream's Location resolved against the URL that was fetched.
LocationAgainstFetched ==
  LET ref == upstream.headers[<<"l","o","c","a","t","i","o","n">>][1]
      e == SchemeEnd(ref)
  IN IF e = 0 THEN ResolveRelative(ref, outbound.url).val ELSE ParseURL(ref).val

C5_QueryCarriedOnce ==
  FetchIssued =>
    LET fetched == Serialize(outbound.url, FALSE)
    IN IF request.search # <<>>
         THEN /\ endsWith(fetched, request.search)
              /\ ~endsWith(fetched, request.search \o request.search)
         ELSE outbound.url.hasQuery
                => includes(decodeURIComponent(request.pathname).val, <<"?">>)

\* C6: the headers sent upstream hold no name starting with cf-, Host equal to
\* the target's hostname (not the inbound Host), Cookie exactly when the inbound
\* request had one and with its value, every other inbound header with its value,
\* and nothing else.
C6_ForwardedHeaders ==
  FetchIssued =>
    LET in == request.headers
        out == outbound.headers
        host == <<"h","o","s","t">>
        cookie == <<"c","o","o","k","i","e">>
    IN /\ \A n \in DOMAIN out : ~startsWith(n, <<"c","f","-">>)
       /\ host \in DOMAIN out /\ out[host] = <<outbound.url.host>>
       /\ out[host] # in[host]
       /\ cookie \in DOMAIN out <=> cookie \in DOMAIN in
       /\ cookie \in DOMAIN in => HeadersGet(out, cookie) = HeadersGet(in, cookie)
       /\ \A n \in DOMAIN in \ {host} :
            ~startsWith(n, <<"c","f","-">>)
              => n \in DOMAIN out /\ HeadersGet(out, n) = HeadersGet(in, n)
       /\ DOMAIN out \subseteq (DOMAIN in \ {host}) \cup {host}

\* C6's case: cookies, a platform header and a repeated header inbound, and a
\* target whose host carries a port.
C6_Witness ==
  /\ pc = "fetching" /\ request.headers = WithAll
  /\ outbound.url.port # <<>>
  /\ DOMAIN outbound.headers = { <<"h","o","s","t">>, <<"c","o","o","k","i","e">>, <<"a","c","c","e","p","t">> }

C8_SetCookieVerbatim ==
  Proxied =>
    LET name == <<"s","e","t","-","c","o","o","k","i","e">>
    IN /\ name \in DOMAIN response.headers <=> name \in DOMAIN upstream.headers
       /\ name \in DOMAIN upstream.headers => response.headers[name] = upstream.headers[name]

\* The headers the proxy sets itself on a branch.
Mutated(how) ==
  IF how = "redirect" THEN { <<"l","o","c","a","t","i","o","n">> }
  ELSE { <<"c","a","c","h","e","-","c","o","n","t","r","o","l">>, <<"a","c","c","e","s","s","-","c","o","n","t","r","o","l","-","a","l","l","o","w","-","o","r","i","g","i","n">>,
         <<"a","c","c","e","s","s","-","c","o","n","t","r","o","l","-","a","l","l","o","w","-","m","e","t","h","o","d","s">>, <<"a","c","c","e","s","s","-","c","o","n","t","r","o","l","-","a","l","l","o","w","-","h","e","a","d","e","r","s">> }

\* C9, as claimed: a proxied response, rewritten redirects included, has the
\* upstream's status and status text and every upstream header, with its value,
\* that the proxy does not set itself (stated here for the headers other than
\* Set-Cookie, which C8 speaks of).
C9_UpstreamHeadersMirrored ==
  Proxied =>
    /\ response.status = upstream.status
    /\ response.statusText = upstream.statusText
    /\ \A n \in DOMAIN upstream.headers \ (Mutated(branch) \cup { <<"s","e","t","-","c","o","o","k","i","e">> }) :
         n \in DOMAIN response.headers /\ response.headers[n] = upstream.headers[n]

\* C10: when a redirect's Location resolved to an http or https URL U and the
\* client follows the rewritten Location through the proxy, the proxy fetches
\* exactly U: same scheme, host, port, path and query, at every hop of a chain.
C10_RedirectRoundTrip ==
  (hop >= 1 /\ resolved.special) =>
    /\ thrown.stage \notin {"decode", "host"}
    /\ pc = "fetching" =>
         /\ fetches = 1
         /\ outbound.url.scheme = resolved.scheme
         /\ outbound.url.host = resolved.host
         /\ outbound.url.port = resolved.port
         /\ outbound.url.path = resolved.path
         /\ outbound.url.hasQuery = resolved.hasQuery
         /\ outbound.url.query = resolved.query

\* C10's case: the second hop of a chain, to a URL with a query that a relative
\* Location produced.
C10_Witness ==
  /\ pc = "fetching" /\ hop = 2
  /\ resolved.special /\ resolved.query = <<"k","=","2">>
  /\ outbound.url.query = <<"k","=","2">>

====
